---- MODULE Spec2Model ----
(***************************************************************************)
(* The log reconstruction pipeline of                                      *)
(* scripts/processing/process-raw-firehose.py and the helpers of           *)
(* src/utils/__init__.py it calls.                                         *)
(*                                                                         *)
(* Representation.  A Python str is a sequence of characters, a character  *)
(* a one-letter TLA+ string; a token such as "A" or "at:" stands for a run *)
(* of characters of which at least one is outside the s32 alphabet.  A URI *)
(* is kept as the list uri.split("/") yields (split is injective, and the  *)
(* script reads a URI only through split, truthiness and equality).  The   *)
(* datetime parse_rkey returns is kept as the integer it is built from     *)
(* (the order is the same).  Record keys are shortened to one timestamp    *)
(* character followed by the two clock characters; the slices rev[:-2] and *)
(* rev[-2:] are those of the source.                                       *)
(***************************************************************************)
EXTENDS Integers, Sequences, FiniteSets, TLC

\* ---- bounds of the model ----
BATCH_SIZE == 2     \* records per file (1_000_000 in the source)
MaxLines == 6       \* longest raw input of the reorder specification
MaxStream == 3      \* longest scanned stream of the scan specification
MaxOriginals == 4   \* most original records of the merge specification
MaxResolveLines == 4  \* most input lines of the resolution specification
MaxTieLines == 6      \* most input lines of the tie specification
MaxFilterOriginals == 3  \* most original records of the filter specification
MaxRecords == 3       \* most records of the session specification
MaxCodecValue == 1100  \* largest of the consecutive integers encoded

VARIABLES
    pc,              \* position of the script
    lines,           \* the lines of the input files, in file order
    line_no,         \* how many of them were read
    record_buffer,   \* the heap: a set of <<ts, counter, record>>
    counter,
    total_records,
    file_counter,
    temp,            \* TEMP_DIR: temp[k + 1] is the records of k.json
    stream,          \* what the iterator of the scan yields
    scan_no,         \* how many of them were scanned
    users,
    posts,
    deleted_users,
    deleted_posts,
    sorted_deletes,
    delete_ts,
    delete_idx,
    last_ts,
    file_no,         \* merge: index into files
    rec_no,          \* merge: records of the current file already merged
    new_batch,
    out,             \* OUT_DIR: out[k + 1] is the records of k.json
    codec_in,        \* s32: the integer given to encode
    codec_str,       \* s32: the str encode returned
    codec_out,       \* s32: the integer decode returned
    users_info,      \* main.py: users.info, by did
    users_sessions,  \* main.py: users.sessions, by session id
    posts_info,      \* main.py: the uris that are keys of posts.info
    loop_record,     \* main.py: record, the record of the current loop round
    now_ts,          \* main.py: its timestamp
    n_records,       \* main.py: how many records the loop has taken
    seen_ts          \* history: by did, the timestamp of its latest record taken

vars == <<pc, lines, line_no, record_buffer, counter, total_records,
          file_counter, temp, stream, scan_no, users, posts, deleted_users,
          deleted_posts, sorted_deletes, delete_ts, delete_idx, last_ts,
          file_no, rec_no, new_batch, out, codec_in, codec_str, codec_out,
          users_info, users_sessions, posts_info, loop_record, now_ts, n_records,
          seen_ts>>

reorderVars == <<record_buffer, counter, total_records, file_counter, temp>>
scanVars == <<users, posts, deleted_users, deleted_posts>>
mergeVars == <<sorted_deletes, delete_ts, delete_idx, last_ts, file_no,
               rec_no, new_batch, out>>
codecVars == <<codec_in, codec_str, codec_out>>
sessionVars == <<users_info, users_sessions, posts_info, loop_record, now_ts,
                 n_records, seen_ts>>

\* ---- sequences ----
RECURSIVE Flatten(_)
Flatten(batches) ==
    IF batches = <<>> THEN <<>> ELSE Head(batches) \o Flatten(Tail(batches))

Count(seq, x) == Cardinality({i \in 1..Len(seq) : seq[i] = x})

Range(seq) == {seq[i] : i \in 1..Len(seq)}

\* ---- utils: s32 ----
S32_CHAR ==
    << "2", "3", "4", "5", "6", "7", "a", "b", "c", "d", "e", "f", "g", "h",
       "i", "j", "k", "l", "m", "n", "o", "p", "q", "r", "s", "t", "u", "v",
       "w", "x", "y", "z" >>

\* S32_CHAR.index(c) raises ValueError for a character outside the alphabet
InAlphabet(c) == \E i \in 1..Len(S32_CHAR) : S32_CHAR[i] = c

index(c) == (CHOOSE i \in 1..Len(S32_CHAR) : S32_CHAR[i] = c) - 1

DecodeRaises(s) == \E k \in 1..Len(s) : ~InAlphabet(s[k])

RECURSIVE decodeFrom(_, _)
decodeFrom(i, s) ==
    IF s = <<>> THEN i ELSE decodeFrom(i * 32 + index(Head(s)), Tail(s))

decode(s) == decodeFrom(0, s)

\* encode building the str at the wrong end: s = s + S32_CHAR[c]
RECURSIVE encodeFrom_appending(_, _)
encodeFrom_appending(i, s) ==
    IF i = 0 THEN s
    ELSE encodeFrom_appending(i \div 32, s \o <<S32_CHAR[(i % 32) + 1]>>)

\* the while loop of encode: s = S32_CHAR[c] + s
RECURSIVE encodeFrom(_, _)
encodeFrom(i, s) ==
    IF i = 0 THEN s
    ELSE encodeFrom(i \div 32, <<S32_CHAR[(i % 32) + 1]>> \o s)

encode(i) == encodeFrom(i, <<>>)

\* ---- utils: URIs and record keys ----
\* rev[:-2] and rev[-2:]
AllButLast2(rev) == SubSeq(rev, 1, Len(rev) - 2)
Last2(rev) == SubSeq(rev, IF Len(rev) > 2 THEN Len(rev) - 1 ELSE 1, Len(rev))

ParseRkeyRaises(rev) == DecodeRaises(AllButLast2(rev)) \/ DecodeRaises(Last2(rev))

parse_rkey(rev) == <<decode(AllButLast2(rev)), decode(Last2(rev))>>

\* "" splits to [""]
EmptyStr == <<>>
EmptyUri == <<EmptyStr>>

rkey_from_uri(uri) == uri[Len(uri)]

DidFromUriRaises(uri) == uri = EmptyUri \/ Len(uri) < 3

did_from_uri(uri) == uri[3]

\* ---- records ----
POST == "app.bsky.feed.post"
FOLLOW == "app.bsky.graph.follow"
LIKE == "app.bsky.feed.like"
REPOST == "app.bsky.feed.repost"
BLOCK == "app.bsky.graph.block"
PROFILE == "app.bsky.actor.profile"

\* An absent string field and an absent URI field (None, or no such key).
NoStr == <<"None">>
NoUri == <<NoStr>>

DidA == <<"A">>
DidB == <<"B">>
DidC == <<"C">>

Uri(did, collection, rkey) == << <<"at:">>, EmptyStr, did, <<collection>>, rkey >>

\* record keys by the timestamp they decode to
Rkey(ts) == <<S32_CHAR[ts + 1], "2", "2">>

Rec(type, did, uri) ==
    [type |-> type, did |-> did, uri |-> uri, createdAt |-> 0,
     reply |-> FALSE, root |-> NoUri, parent |-> NoUri, quote |-> NoUri,
     subject |-> NoStr, subject_uri |-> NoUri]

WithTs(ts, record) == [ts |-> ts] @@ record

\* ---- calc_timestamp ----
\* createdAt is kept as the instant, in milliseconds, that the ISO text
\* denotes; a negative one stands for a text datetime.fromisoformat rejects
FromIsoformatRaises(createdAt) == createdAt < 0

CalcTimestampRaises(record) ==
    IF record.type = PROFILE
    THEN FromIsoformatRaises(record.createdAt)
    ELSE /\ rkey_from_uri(record.uri) # EmptyStr
         /\ ParseRkeyRaises(rkey_from_uri(record.uri))

CalcTimestampIsNone(record) ==
    /\ record.type # PROFILE
    /\ rkey_from_uri(record.uri) = EmptyStr

calc_timestamp(record) ==
    IF record.type = PROFILE
    THEN record.createdAt
    ELSE parse_rkey(rkey_from_uri(record.uri))[1]

\* ---- the heap ----
\* heapq orders the tuples by (ts, counter); counter is unique in the heap
HeapLess_newest_first(a, b) == a[1] < b[1] \/ (a[1] = b[1] /\ a[2] > b[2])

HeapLess(a, b) == a[1] < b[1] \/ (a[1] = b[1] /\ a[2] < b[2])

HeapMin(buf) == CHOOSE a \in buf : \A b \in buf : a = b \/ HeapLess(a, b)

\* a buffer keyed by ts alone: a record replaces the one with its timestamp
heappush_keyed_by_ts(buf, item) == {e \in buf : e[1] # item[1]} \cup {item}

heappush(buf, item) == buf \cup {item}

\* flushing as soon as one batch is buffered
BufferFull_one_batch(buf) == Cardinality(buf) >= BATCH_SIZE

\* flushing one record late
BufferFull_strict(buf) == Cardinality(buf) > BATCH_SIZE * 2

\* len(record_buffer) >= BATCH_SIZE * 2
BufferFull(buf) == Cardinality(buf) >= BATCH_SIZE * 2

\* one heappop fewer than asked for
RECURSIVE PopSmallest_one_short(_, _)
PopSmallest_one_short(buf, n) ==
    IF n <= 1 \/ buf = {}
    THEN <<(<<>>), buf>>
    ELSE LET m == HeapMin(buf)
             r == PopSmallest_one_short(buf \ {m}, n - 1)
         IN  <<(<<m[3]>>) \o r[1], r[2]>>

\* up to n heappops: <<the records popped, in order; the heap left>>
RECURSIVE PopSmallest(_, _)
PopSmallest(buf, n) ==
    IF n = 0 \/ buf = {}
    THEN <<(<<>>), buf>>
    ELSE LET m == HeapMin(buf)
             r == PopSmallest(buf \ {m}, n - 1)
         IN  <<(<<m[3]>>) \o r[1], r[2]>>

\* ---- the reorder phase ----
\* one line of the input: calc_timestamp, heappush
ReadLine ==
    /\ pc = "read"
    /\ line_no < Len(lines)
    /\ line_no' = line_no + 1
    /\ LET record == lines[line_no + 1]
       IN  IF CalcTimestampRaises(record)
           THEN /\ pc' = "crashed"
                /\ UNCHANGED <<record_buffer, counter>>
           ELSE IF CalcTimestampIsNone(record)
           THEN UNCHANGED <<pc, record_buffer, counter>>
           ELSE LET ts == calc_timestamp(record)
                    buf == heappush(record_buffer, <<ts, counter, WithTs(ts, record)>>)
                IN  /\ record_buffer' = buf
                    /\ counter' = counter + 1
                    /\ pc' = IF BufferFull(buf) THEN "flush" ELSE "read"
    /\ UNCHANGED <<lines, total_records, file_counter, temp, stream, scan_no>>
    /\ UNCHANGED <<scanVars, mergeVars>>
    /\ UNCHANGED codecVars
    /\ UNCHANGED sessionVars

\* the buffer is full: write out the smallest BATCH_SIZE records
Flush ==
    /\ pc = "flush"
    /\ LET r == PopSmallest(record_buffer, BATCH_SIZE)
       IN  /\ temp' = Append(temp, r[1])
           /\ record_buffer' = r[2]
           /\ total_records' = total_records + Len(r[1])
    /\ file_counter' = file_counter + 1
    /\ pc' = "read"
    /\ UNCHANGED <<lines, line_no, counter, stream, scan_no>>
    /\ UNCHANGED <<scanVars, mergeVars>>
    /\ UNCHANGED codecVars
    /\ UNCHANGED sessionVars

EndOfInput ==
    /\ pc = "read"
    /\ line_no = Len(lines)
    /\ pc' = "drain"
    /\ UNCHANGED <<lines, line_no, stream, scan_no>>
    /\ UNCHANGED <<reorderVars, scanVars, mergeVars>>
    /\ UNCHANGED codecVars
    /\ UNCHANGED sessionVars

\* one round of "while record_buffer"
DrainBatch ==
    /\ pc = "drain"
    /\ record_buffer # {}
    /\ LET r == PopSmallest(record_buffer, BATCH_SIZE)
       IN  /\ record_buffer' = r[2]
           /\ total_records' = total_records + Len(r[1])
           /\ IF r[1] # <<>>
              THEN /\ temp' = Append(temp, r[1])
                   /\ file_counter' = file_counter + 1
              ELSE UNCHANGED <<temp, file_counter>>
    /\ UNCHANGED <<pc, lines, line_no, counter, stream, scan_no>>
    /\ UNCHANGED <<scanVars, mergeVars>>
    /\ UNCHANGED codecVars
    /\ UNCHANGED sessionVars

DrainDone ==
    /\ pc = "drain"
    /\ record_buffer = {}
    /\ pc' = "scan"
    /\ UNCHANGED <<lines, line_no, stream, scan_no>>
    /\ UNCHANGED <<reorderVars, scanVars, mergeVars>>
    /\ UNCHANGED codecVars
    /\ UNCHANGED sessionVars

\* ---- the raw input of the reorder specification ----
RawRecords ==
    {Rec(BLOCK, DidA, Uri(DidA, BLOCK, Rkey(t))) : t \in 0..2}
        \cup {Rec(BLOCK, DidA, Uri(DidA, BLOCK, EmptyStr)),         \* no rkey
              Rec(BLOCK, DidA, Uri(DidA, BLOCK, <<"3", "!", "2">>))} \* bad rkey

SeqsUpTo(S, n) == UNION {[1..k -> S] : k \in 0..n}

\* records as the temp batches hold them, with their ts
Stamped(raws) ==
    {[i \in 1..Len(raw) |-> WithTs(calc_timestamp(raw[i]), raw[i])] : raw \in raws}

\* the record without its ts
Raw(r) == [f \in DOMAIN r \ {"ts"} |-> r[f]]

NoScan ==
    /\ stream = <<>>
    /\ scan_no = 0
    /\ users = {}
    /\ posts = {}
    /\ deleted_users = {}
    /\ deleted_posts = {}

\* main.py has not run
NoSession ==
    /\ users_info = <<>>
    /\ users_sessions = <<>>
    /\ posts_info = {}
    /\ loop_record = <<>>
    /\ now_ts = 0
    /\ n_records = 0
    /\ seen_ts = <<>>

NoCodec ==
    /\ codec_in = 0
    /\ codec_str = <<>>
    /\ codec_out = 0

NoMerge ==
    /\ sorted_deletes = <<>>
    /\ delete_ts = -1
    /\ delete_idx = 0
    /\ last_ts = -1
    /\ file_no = 0
    /\ rec_no = 0
    /\ new_batch = <<>>
    /\ out = <<>>

Init ==
    /\ pc = "read"
    /\ lines \in SeqsUpTo(RawRecords, MaxLines)
    /\ line_no = 0
    /\ record_buffer = {}
    /\ counter = 0
    /\ total_records = 0
    /\ file_counter = 0
    /\ temp = <<>>
    /\ NoScan
    /\ NoMerge
    /\ NoSession
    /\ NoCodec

\* the name of the k-th temp file written: f"{file_counter}.json"
TempName(k) == [stem |-> k - 1, ext |-> "json"]

\* records() opens f"{stream_path}/{ts}.jsonl" for each date from start_date
DatedNames(files) == {k \in files : TempName(k).ext = "jsonl"}

\* the scan asks records() for the records of TEMP_DIR: open() of the file of
\* the first date raises FileNotFoundError when the directory has no such file
OpenRecords ==
    /\ pc = "scan"
    /\ stream = <<>>
    /\ scan_no = 0
    /\ IF DatedNames(1..Len(temp)) = {}
       THEN pc' = "crashed" /\ UNCHANGED stream
       ELSE /\ pc' = "scan"
            /\ stream' = Flatten([k \in 1..Len(temp) |->
                              IF k \in DatedNames(1..Len(temp)) THEN temp[k] ELSE <<>>])
    /\ UNCHANGED <<lines, line_no, scan_no>>
    /\ UNCHANGED <<reorderVars, scanVars, mergeVars>>
    /\ UNCHANGED codecVars
    /\ UNCHANGED sessionVars

Next == ReadLine \/ Flush \/ EndOfInput \/ DrainBatch \/ DrainDone \/ OpenRecords

Spec == Init /\ [][Next]_vars

\* ---- the reorder engine: claims ----
Resolves(record) == ~CalcTimestampRaises(record) /\ ~CalcTimestampIsNone(record)

\* the input records whose timestamp resolves, in input order, with their ts
RECURSIVE ResolvedOf(_)
ResolvedOf(ls) ==
    IF ls = <<>> THEN <<>>
    ELSE IF Resolves(Head(ls))
         THEN <<WithTs(calc_timestamp(Head(ls)), Head(ls))>> \o ResolvedOf(Tail(ls))
         ELSE ResolvedOf(Tail(ls))

Resolved == ResolvedOf(lines)
Emitted == Flatten(temp)

NonDecreasing(rs) == \A i \in 1..Len(rs) - 1 : rs[i].ts <= rs[i + 1].ts

Rank(rs, i) ==
    Cardinality({j \in 1..Len(rs) :
        rs[j].ts < rs[i].ts \/ (rs[j].ts = rs[i].ts /\ j <= i)})

Displacement(rs, i) == IF i >= Rank(rs, i) THEN i - Rank(rs, i) ELSE Rank(rs, i) - i

SkewBelowBatch(rs) == \A i \in 1..Len(rs) : Displacement(rs, i) < BATCH_SIZE

C3_BufferBound == Cardinality(record_buffer) <= 2 * BATCH_SIZE

\* the heap at its largest, before the flush
C3_Witness == pc = "flush" /\ Cardinality(record_buffer) = 2 * BATCH_SIZE

\* ---- the scan for deleted posts and users ----
\* "if root_uri", "if quoted_uri"
Truthy(uri) == uri # NoUri /\ uri # EmptyUri

get_quoted_uri(record) == record.quote

\* "if uri not in posts: deleted_posts.add(uri)", then did_from_uri(uri) and
\* "if did not in users: deleted_users.add(did)".  st is the pair of deleted
\* sets so far and whether an exception is in flight.

\* the same without the "not in posts" guard
CheckRef_unconditional(st, uri, P, U) ==
    IF st.raised THEN st
    ELSE IF DidFromUriRaises(uri)
         THEN [dp |-> st.dp \cup {uri}, du |-> st.du, raised |-> TRUE]
         ELSE [dp |-> st.dp \cup {uri},
               du |-> IF did_from_uri(uri) \notin U
                      THEN st.du \cup {did_from_uri(uri)} ELSE st.du,
               raised |-> FALSE]

\* the post test without its "not": flags the uri that is in posts
CheckRef_inverted(st, uri, P, U) ==
    IF st.raised THEN st
    ELSE LET dp == IF uri \in P THEN st.dp \cup {uri} ELSE st.dp
         IN  IF DidFromUriRaises(uri)
             THEN [dp |-> dp, du |-> st.du, raised |-> TRUE]
             ELSE [dp |-> dp,
                   du |-> IF did_from_uri(uri) \notin U
                          THEN st.du \cup {did_from_uri(uri)} ELSE st.du,
                   raised |-> FALSE]

\* the post test taking the uri out of deleted_posts once it is in posts
CheckRef_unflagging(st, uri, P, U) ==
    IF st.raised THEN st
    ELSE LET dp == IF uri \notin P THEN st.dp \cup {uri} ELSE st.dp \ {uri}
         IN  IF DidFromUriRaises(uri)
             THEN [dp |-> dp, du |-> st.du, raised |-> TRUE]
             ELSE [dp |-> dp,
                   du |-> IF did_from_uri(uri) \notin U
                          THEN st.du \cup {did_from_uri(uri)} ELSE st.du,
                   raised |-> FALSE]

CheckRef(st, uri, P, U) ==
    IF st.raised THEN st
    ELSE LET dp == IF uri \notin P THEN st.dp \cup {uri} ELSE st.dp
         IN  IF DidFromUriRaises(uri)
             THEN [dp |-> dp, du |-> st.du, raised |-> TRUE]
             ELSE [dp |-> dp,
                   du |-> IF did_from_uri(uri) \notin U
                          THEN st.du \cup {did_from_uri(uri)} ELSE st.du,
                   raised |-> FALSE]

CheckIfTruthy(st, uri, P, U) == IF Truthy(uri) THEN CheckRef(st, uri, P, U) ELSE st

\* the follow case looking at the follower instead of the followed
FollowIsDangling_own_did(record, U) == record.did \notin U

\* "if record["subject"] not in users"
FollowIsDangling(record, U) == record.subject \notin U

\* the match statement, with the known sets P and U of after the additions
ScanCase(record, st, P, U) ==
    CASE record.type = POST ->
            LET s1 == IF record.reply THEN CheckIfTruthy(st, record.root, P, U) ELSE st
                s2 == IF record.reply THEN CheckIfTruthy(s1, record.parent, P, U) ELSE s1
            IN  CheckIfTruthy(s2, get_quoted_uri(record), P, U)
      [] record.type = FOLLOW ->
            IF FollowIsDangling(record, U)
            THEN [st EXCEPT !.du = @ \cup {record.subject}]
            ELSE st
      [] record.type \in {LIKE, REPOST} -> CheckRef(st, record.subject_uri, P, U)
      [] OTHER -> st

\* one record of the scan
ScanRecord ==
    /\ pc = "scan"
    /\ scan_no < Len(stream)
    /\ LET record == stream[scan_no + 1]
           U == users \cup {record.did}
           P == IF record.type = POST THEN posts \cup {record.uri} ELSE posts
           st == ScanCase(record,
                          [dp |-> deleted_posts, du |-> deleted_users, raised |-> FALSE],
                          P, U)
       IN  /\ users' = U
           /\ posts' = P
           /\ deleted_posts' = st.dp
           /\ deleted_users' = st.du
           /\ IF st.raised
              THEN pc' = "crashed" /\ UNCHANGED scan_no
              ELSE pc' = "scan" /\ scan_no' = scan_no + 1
    /\ UNCHANGED <<lines, line_no, stream>>
    /\ UNCHANGED <<reorderVars, mergeVars>>
    /\ UNCHANGED codecVars
    /\ UNCHANGED sessionVars

\* the validation prints its warnings and the script goes on
ScanDone ==
    /\ pc = "scan"
    /\ scan_no = Len(stream)
    /\ pc' = "filter"
    /\ UNCHANGED <<lines, line_no, stream, scan_no>>
    /\ UNCHANGED <<reorderVars, scanVars, mergeVars>>
    /\ UNCHANGED codecVars
    /\ UNCHANGED sessionVars

\* ---- the streams of the scan specification ----
PostA == Uri(DidA, POST, Rkey(1))
PostB == Uri(DidB, POST, Rkey(2))
PostC == Uri(DidC, POST, Rkey(3))

Reply(did, uri, root, parent) ==
    [Rec(POST, did, uri) EXCEPT !.reply = TRUE, !.root = root, !.parent = parent]

Quote(did, uri, quoted) == [Rec(POST, did, uri) EXCEPT !.quote = quoted]

OnPost(type, did, rkey, target) ==
    [Rec(type, did, Uri(did, type, rkey)) EXCEPT !.subject_uri = target]

Follow(did, rkey, whom) ==
    [Rec(FOLLOW, did, Uri(did, FOLLOW, rkey)) EXCEPT !.subject = whom]

ScanRecords ==
    { Rec(POST, DidA, PostA),
      Reply(DidB, PostB, PostA, PostC),
      Reply(DidA, PostA, PostA, PostA),
      Reply(DidB, PostB, EmptyUri, PostA),
      Quote(DidA, PostA, PostB),
      OnPost(LIKE, DidA, Rkey(4), PostB),
      OnPost(LIKE, DidB, Rkey(4), PostB),
      OnPost(LIKE, DidB, Rkey(5), EmptyUri),
      OnPost(REPOST, DidB, Rkey(6), PostA),
      OnPost(REPOST, DidA, Rkey(6), PostC),
      Follow(DidA, Rkey(7), DidB),
      Follow(DidB, Rkey(7), DidA),
      Rec(BLOCK, DidB, Uri(DidB, BLOCK, Rkey(8))) }

InitScan ==
    /\ pc = "scan"
    /\ stream \in Stamped(SeqsUpTo(ScanRecords, MaxStream))
    /\ scan_no = 0
    /\ users = {}
    /\ posts = {}
    /\ deleted_users = {}
    /\ deleted_posts = {}
    /\ lines = <<>>
    /\ line_no = 0
    /\ record_buffer = {}
    /\ counter = 0
    /\ total_records = 0
    /\ file_counter = 0
    /\ temp = <<>>
    /\ NoMerge
    /\ NoSession
    /\ NoCodec

NextScan == ScanRecord \/ ScanDone

SpecScan == InitScan /\ [][NextScan]_vars

\* ---- the scan: claims ----
KnownActorsAt(i) == {stream[j].did : j \in 1..i}
KnownPostsAt(i) == {stream[j].uri : j \in {k \in 1..i : stream[k].type = POST}}

\* the post identifiers a record refers to
PostRefs(r) ==
    IF r.type = POST
    THEN {u \in (IF r.reply THEN {r.root, r.parent} ELSE {}) \cup {r.quote} : Truthy(u)}
    ELSE IF r.type \in {LIKE, REPOST} THEN {r.subject_uri} ELSE {}

FlaggedPosts ==
    {u \in UNION {PostRefs(stream[i]) : i \in 1..scan_no} :
        \E i \in 1..scan_no : u \in PostRefs(stream[i]) /\ u \notin KnownPostsAt(i)}

FlaggedActorsOfPosts ==
    {did_from_uri(u) : u \in
        {v \in UNION {PostRefs(stream[i]) : i \in 1..scan_no} :
            \E i \in 1..scan_no : /\ v \in PostRefs(stream[i])
                                  /\ did_from_uri(v) \notin KnownActorsAt(i)}}

FlaggedFollowSubjects ==
    {stream[i].subject : i \in
        {k \in 1..scan_no : /\ stream[k].type = FOLLOW
                            /\ stream[k].subject \notin KnownActorsAt(k)}}

KnownSetsFirst ==
    /\ users = KnownActorsAt(scan_no)
    /\ posts = KnownPostsAt(scan_no)

\* C9 as stated: the own actor and the own post identifier are known before
\* the references of a record are looked at, a referenced post is dangling
\* iff it was not a known post when referenced, its actor iff not a known
\* actor then, and the two dangling sets are exactly these.
C9_AsStated ==
    pc \in {"scan", "filter"} =>
        /\ KnownSetsFirst
        /\ deleted_posts = FlaggedPosts
        /\ deleted_users = FlaggedActorsOfPosts

\* C9, amended: the same, and deleted_users holds besides the subjects of the
\* Follow records that were not known actors when followed.
C9_FlaggingRule ==
    pc \in {"scan", "filter"} =>
        /\ KnownSetsFirst
        /\ deleted_posts = FlaggedPosts
        /\ deleted_users = FlaggedActorsOfPosts \cup FlaggedFollowSubjects

\* a finished scan that flagged a post and its actor, and passed over a known
\* post and a known actor
C9_Witness ==
    /\ pc = "filter"
    /\ deleted_posts # {}
    /\ FlaggedActorsOfPosts # {}
    /\ \E i \in 1..scan_no : \E u \in PostRefs(stream[i]) :
          u \in KnownPostsAt(i) /\ u \notin deleted_posts
    /\ \E i \in 1..scan_no : \E u \in PostRefs(stream[i]) :
          did_from_uri(u) = stream[i].did /\ did_from_uri(u) \notin deleted_users

PostedBefore(actor, i) ==
    \E j \in 1..(i - 1) : stream[j].type = POST /\ stream[j].did = actor

\* C10 as stated: the subject of a Follow scanned before the subject ever
\* posted is in deleted_users after the scan.
C10_AsStated ==
    pc = "filter" =>
        \A i \in 1..scan_no :
            (stream[i].type = FOLLOW /\ ~PostedBefore(stream[i].subject, i))
                => stream[i].subject \in deleted_users

\* C10, amended: the subject of a Follow is in deleted_users after the scan
\* if no record of any kind by the subject was scanned up to and including
\* that Follow.
C10_FollowOfUnknownActor ==
    pc = "filter" =>
        \A i \in 1..scan_no :
            (stream[i].type = FOLLOW /\ stream[i].subject \notin KnownActorsAt(i))
                => stream[i].subject \in deleted_users

\* a finished scan with a Follow of an actor that no scanned record is by
C10_Witness ==
    /\ pc = "filter"
    /\ \E i \in 1..scan_no :
          /\ stream[i].type = FOLLOW
          /\ stream[i].subject \notin KnownActorsAt(scan_no)
          /\ stream[i].subject \in deleted_users

\* ---- the re-insertion of the deleted posts ----
\* the code point of a character of the alphabet: '2'..'7', 'a'..'z'
Ord(c) == IF index(c) < 6 THEN 50 + index(c) ELSE 97 + (index(c) - 6)

\* a < b for Python strs
RECURSIVE StrLess(_, _)
StrLess(a, b) ==
    IF b = <<>> THEN FALSE
    ELSE IF a = <<>> THEN TRUE
    ELSE IF Head(a) = Head(b) THEN StrLess(Tail(a), Tail(b))
    ELSE Ord(Head(a)) < Ord(Head(b))

\* the key of sorted(): x.split("/")[-1]
SortKey(uri) == uri[Len(uri)]

\* the uris of deleted_posts that reach valid_deletes
ValidDeletes(dp) == {uri \in dp : rkey_from_uri(uri) # EmptyStr}

FilterRaises(dp) == \E uri \in ValidDeletes(dp) : ParseRkeyRaises(rkey_from_uri(uri))

\* sorted() is stable and a set is iterated in any order: every arrangement
\* of the set that is non-decreasing in the key
SortedDeletes(valid) ==
    {sd \in [1..Cardinality(valid) -> valid] :
        /\ \A i, j \in 1..Cardinality(valid) : i # j => sd[i] # sd[j]
        /\ \A i, j \in 1..Cardinality(valid) :
              i < j => ~StrLess(SortKey(sd[j]), SortKey(sd[i]))}

DeleteTs(uri) == parse_rkey(rkey_from_uri(uri))[1]

\* a tombstone carrying the timestamp of its own rkey
Tombstone_own_ts(uri, ts) ==
    [type |-> POST, ts |-> DeleteTs(uri), did |-> did_from_uri(uri), uri |-> uri,
     deleted |-> TRUE]

\* the dict appended to new_batch
Tombstone(uri, ts) ==
    [type |-> POST, ts |-> ts, did |-> did_from_uri(uri), uri |-> uri,
     deleted |-> TRUE]

\* the while loop in front of a record with timestamp ts:
\* <<new_batch, delete_idx, delete_ts>> after it
RECURSIVE InsertDeletes(_, _, _, _, _)
InsertDeletes(batch, idx, dts, lts, ts) ==
    IF idx < Len(sorted_deletes) /\ dts >= lts /\ dts <= ts
    THEN InsertDeletes(Append(batch, Tombstone(sorted_deletes[idx + 1], ts)),
                       idx + 1,
                       IF idx + 1 < Len(sorted_deletes)
                       THEN DeleteTs(sorted_deletes[idx + 2])
                       ELSE dts,
                       lts, ts)
    ELSE <<batch, idx, dts>>

\* valid_deletes, sorted_deletes and the cursors
FilterSort ==
    /\ pc = "filter"
    /\ IF FilterRaises(deleted_posts)
       THEN /\ pc' = "crashed"
            /\ UNCHANGED <<sorted_deletes, delete_ts, delete_idx, last_ts>>
       ELSE /\ sorted_deletes' \in SortedDeletes(ValidDeletes(deleted_posts))
            /\ delete_ts' = -1
            /\ delete_idx' = 0
            /\ last_ts' = -1
            /\ pc' = "merge"
    /\ UNCHANGED <<lines, line_no, stream, scan_no, file_no, rec_no, new_batch, out>>
    /\ UNCHANGED <<reorderVars, scanVars>>
    /\ UNCHANGED codecVars
    /\ UNCHANGED sessionVars

\* the merge with new_batch emptied once, before the loop over the files,
\* instead of once per file
MergeRecord_batch_not_reset ==
    /\ pc = "merge"
    /\ file_no < Len(temp)
    /\ LET data == temp[file_no + 1]
           record == data[rec_no + 1]
           ts == record.ts
           r == InsertDeletes(new_batch, delete_idx, delete_ts, last_ts, ts)
           batch == Append(r[1], record)
       IN  /\ delete_idx' = r[2]
           /\ delete_ts' = r[3]
           /\ last_ts' = ts
           /\ new_batch' = batch
           /\ IF rec_no + 1 = Len(data)
              THEN /\ out' = Append(out, batch)
                   /\ file_no' = file_no + 1
                   /\ rec_no' = 0
              ELSE /\ rec_no' = rec_no + 1
                   /\ UNCHANGED <<out, file_no>>
    /\ UNCHANGED <<pc, lines, line_no, stream, scan_no, sorted_deletes>>
    /\ UNCHANGED <<reorderVars, scanVars>>
    /\ UNCHANGED codecVars
    /\ UNCHANGED sessionVars

\* one record of one temp file; after the last record of the file the new
\* batch is written to OUT_DIR
MergeRecord ==
    /\ pc = "merge"
    /\ file_no < Len(temp)
    /\ LET data == temp[file_no + 1]
           record == data[rec_no + 1]
           ts == record.ts
           r == InsertDeletes(new_batch, delete_idx, delete_ts, last_ts, ts)
           batch == Append(r[1], record)
       IN  /\ delete_idx' = r[2]
           /\ delete_ts' = r[3]
           /\ last_ts' = ts
           /\ IF rec_no + 1 = Len(data)
              THEN /\ out' = Append(out, batch)
                   /\ new_batch' = <<>>
                   /\ file_no' = file_no + 1
                   /\ rec_no' = 0
              ELSE /\ new_batch' = batch
                   /\ rec_no' = rec_no + 1
                   /\ UNCHANGED <<out, file_no>>
    /\ UNCHANGED <<pc, lines, line_no, stream, scan_no, sorted_deletes>>
    /\ UNCHANGED <<reorderVars, scanVars>>
    /\ UNCHANGED codecVars
    /\ UNCHANGED sessionVars

\* every file is merged: shutil.rmtree(TEMP_DIR)
Cleanup ==
    /\ pc = "merge"
    /\ file_no = Len(temp)
    /\ temp' = <<>>
    /\ pc' = "done"
    /\ UNCHANGED <<lines, line_no, stream, scan_no, record_buffer, counter,
                   total_records, file_counter>>
    /\ UNCHANGED <<scanVars, mergeVars>>
    /\ UNCHANGED codecVars
    /\ UNCHANGED sessionVars

\* ---- the merge specification ----
\* The reorder phase has written its batches and the scan is given their
\* records in batch order.  With at most MaxOriginals < 2 * BATCH_SIZE + 1
\* records the heap is drained whole, so the batches are the sorted input
\* cut every BATCH_SIZE records; records of one timestamp keep input order.
Del0 == Uri(DidC, POST, Rkey(0))
Del2 == Uri(DidB, POST, Rkey(2))
Del2c == Uri(DidC, POST, Rkey(2))
Del4 == Uri(DidC, POST, Rkey(4))

MergeRecords ==
    {Rec(BLOCK, DidA, Uri(DidA, BLOCK, Rkey(t))) : t \in {1, 3}}
        \cup {OnPost(LIKE, DidA, Rkey(t), d) : t \in {1, 3}, d \in {Del0, Del2, Del2c, Del4}}
        \cup {Rec(POST, DidB, Del2)}

RECURSIVE Chop(_, _)
Chop(rs, n) ==
    IF Len(rs) <= n
    THEN IF rs = <<>> THEN <<>> ELSE <<rs>>
    ELSE <<SubSeq(rs, 1, n)>> \o Chop(SubSeq(rs, n + 1, Len(rs)), n)

OriginalStreams == {rs \in Stamped(SeqsUpTo(MergeRecords, MaxOriginals)) : NonDecreasing(rs)}

InitMerge ==
    /\ pc = "scan"
    /\ stream \in OriginalStreams
    /\ temp = Chop(stream, BATCH_SIZE)
    /\ scan_no = 0
    /\ users = {}
    /\ posts = {}
    /\ deleted_users = {}
    /\ deleted_posts = {}
    /\ lines = [i \in 1..Len(stream) |-> Raw(stream[i])]
    /\ line_no = Len(stream)
    /\ record_buffer = {}
    /\ counter = Len(stream)
    /\ total_records = Len(stream)
    /\ file_counter = Len(temp)
    /\ NoMerge
    /\ NoSession
    /\ NoCodec

NextMerge == ScanRecord \/ ScanDone \/ FilterSort \/ MergeRecord \/ Cleanup

SpecMerge == InitMerge /\ [][NextMerge]_vars

\* ---- the merge: claims ----
Final == Flatten(out)

IsTombstone(r) == "deleted" \in DOMAIN r

TombstonesOf(uri) == {p \in 1..Len(Final) : IsTombstone(Final[p]) /\ Final[p].uri = uri}

\* the tombstones the merge has not placed
Unplaced == SubSeq(sorted_deletes, delete_idx + 1, Len(sorted_deletes))

\* C4: after the merge every dangling post identifier with a resolvable rkey
\* is in the final output as a tombstone exactly once.
C4_Completeness ==
    pc = "done" =>
        \A uri \in ValidDeletes(deleted_posts) : Cardinality(TombstonesOf(uri)) = 1

\* C5: a tombstone stands in front of the first original record whose ts is
\* at least the timestamp its rkey decodes to: every original record before
\* it is earlier than that timestamp, and the next original record after it
\* exists and is not.
C5_Placement ==
    pc = "done" =>
        \A p \in 1..Len(Final) :
            IsTombstone(Final[p]) =>
                /\ \A k \in 1..(p - 1) :
                      ~IsTombstone(Final[k]) => Final[k].ts < DeleteTs(Final[p].uri)
                /\ \E q \in (p + 1)..Len(Final) :
                      /\ ~IsTombstone(Final[q])
                      /\ \A k \in (p + 1)..(q - 1) : IsTombstone(Final[k])
                      /\ Final[q].ts >= DeleteTs(Final[p].uri)

C7_TailBatch ==
    (pc = "done" /\ Unplaced # <<>>) =>
        /\ Len(out) = file_no + 1
        /\ Len(out[Len(out)]) = Len(Unplaced)
        /\ \A i \in 1..Len(Unplaced) :
              /\ IsTombstone(out[Len(out)][i])
              /\ out[Len(out)][i].uri = Unplaced[i]

\* C8: the ts of a tombstone in the final output is the timestamp its own
\* rkey decodes to.
C8_OwnTimestamp ==
    pc = "done" =>
        \A p \in 1..Len(Final) :
            IsTombstone(Final[p]) => Final[p].ts = DeleteTs(Final[p].uri)

\* ---- the codec on its own ----
\* the integers encoded: every one up to MaxCodecValue and some of up to
\* seven characters
CodecValues ==
    0..MaxCodecValue \cup {32767, 32768, 1048575, 1048576, 33554431, 33554432,
                           1073741823, 1073741824, 2147483647}

InitCodec ==
    /\ pc = "encode"
    /\ codec_in \in CodecValues
    /\ codec_str = <<>>
    /\ codec_out = 0
    /\ lines = <<>>
    /\ line_no = 0
    /\ record_buffer = {}
    /\ counter = 0
    /\ total_records = 0
    /\ file_counter = 0
    /\ temp = <<>>
    /\ NoScan
    /\ NoMerge
    /\ NoSession

Encode ==
    /\ pc = "encode"
    /\ codec_str' = encode(codec_in)
    /\ pc' = "decode"
    /\ UNCHANGED <<codec_in, codec_out, lines, line_no, stream, scan_no>>
    /\ UNCHANGED <<reorderVars, scanVars, mergeVars>>
    /\ UNCHANGED sessionVars

\* decode of what encode returned; every character of it is of the alphabet
Decode ==
    /\ pc = "decode"
    /\ IF DecodeRaises(codec_str)
       THEN pc' = "crashed" /\ UNCHANGED codec_out
       ELSE pc' = "decoded" /\ codec_out' = decode(codec_str)
    /\ UNCHANGED <<codec_in, codec_str, lines, line_no, stream, scan_no>>
    /\ UNCHANGED <<reorderVars, scanVars, mergeVars>>
    /\ UNCHANGED sessionVars

NextCodec == Encode \/ Decode

SpecCodec == InitCodec /\ [][NextCodec]_vars

\* C14: decode(encode(v)) = v for every non-negative integer v of the range,
\* 0 included, which encodes to the empty str.
C14_RoundTrip ==
    /\ pc # "crashed"
    /\ pc = "decoded" => codec_out = codec_in
    /\ (pc = "decoded" /\ codec_in = 0) => codec_str = EmptyStr

\* a value of several characters, with a zero digit inside, decoded
C14_Witness ==
    /\ pc = "decoded"
    /\ Len(codec_str) >= 3
    /\ \E k \in 2..Len(codec_str) : codec_str[k] = S32_CHAR[1]
    /\ codec_out = codec_in

\* ---- the reorder phase over well-formed and malformed records ----
Profile(did, createdAt) ==
    [Rec(PROFILE, did, Uri(did, PROFILE, <<"self">>)) EXCEPT !.createdAt = createdAt]

ResolveRecords ==
    {Rec(BLOCK, DidA, Uri(DidA, BLOCK, Rkey(t))) : t \in 0..1}
        \cup {Rec(BLOCK, DidA, Uri(DidA, BLOCK, EmptyStr)),           \* no rkey
              Rec(BLOCK, DidA, Uri(DidA, BLOCK, <<"3", "!", "2">>)),  \* bad character
              Rec(BLOCK, DidA, Uri(DidA, BLOCK, <<"3", "2">>)),       \* too short
              Profile(DidA, 1),                                       \* parsable
              Profile(DidA, -1)}                                      \* unparsable

InitResolve ==
    /\ pc = "read"
    /\ lines \in SeqsUpTo(ResolveRecords, MaxResolveLines)
    /\ line_no = 0
    /\ record_buffer = {}
    /\ counter = 0
    /\ total_records = 0
    /\ file_counter = 0
    /\ temp = <<>>
    /\ NoScan
    /\ NoMerge
    /\ NoSession
    /\ NoCodec

SpecResolve == InitResolve /\ [][Next]_vars

\* a record key of the full length, every character of the alphabet
WellFormedRkey(rkey) ==
    /\ Len(rkey) = Len(Rkey(0))
    /\ \A k \in 1..Len(rkey) : InAlphabet(rkey[k])

Malformed(record) ==
    IF record.type = PROFILE
    THEN FromIsoformatRaises(record.createdAt)
    ELSE ~WellFormedRkey(rkey_from_uri(record.uri))

\* C11: a record whose timestamp does not resolve (a non-Profile record whose
\* record key is not of the full length or has a character outside the
\* alphabet, a Profile record with an unparsable createdAt) is skipped: the run
\* does not crash, and the record is neither in the heap nor in a temp batch.
C11_SkipNotCrash ==
    /\ pc # "crashed"
    /\ \A i \in 1..line_no :
          Malformed(lines[i]) =>
              /\ lines[i] \notin {Raw(e[3]) : e \in record_buffer}
              /\ lines[i] \notin {Raw(r) : r \in Range(Emitted)}

\* ---- the scan: malformed references, disjointness, monotonicity ----
\* C12: a referenced identifier from which no actor can be extracted (empty,
\* or of fewer than three "/"-separated parts) does not abort the scan and is
\* not added to deleted_posts.
C12_MalformedRefSkipped ==
    /\ pc # "crashed"
    /\ \A uri \in deleted_posts : ~DidFromUriRaises(uri)

\* the positions of the Post records defining uri
DefinedAt(uri) ==
    {j \in 1..Len(stream) : stream[j].type = POST /\ stream[j].uri = uri}

\* every post that has a defining record is defined before each record
\* referring to it
DefinedBeforeReferenced ==
    \A i \in 1..Len(stream) : \A uri \in PostRefs(stream[i]) :
        DefinedAt(uri) # {} => \E j \in DefinedAt(uri) : j < i

\* C15: if every post with a defining Post record in the stream has it scanned
\* before every record that refers to the post, then after the scan posts and
\* deleted_posts are disjoint.
C15_Disjoint ==
    (pc = "filter" /\ DefinedBeforeReferenced) => posts \cap deleted_posts = {}

\* a scan ended with a reference to a post defined earlier and a dangling one
C15_Witness ==
    /\ pc = "filter"
    /\ DefinedBeforeReferenced
    /\ \E i \in 1..Len(stream) : PostRefs(stream[i]) \cap posts # {}
    /\ deleted_posts # {}

\* C16: in every step users, posts, deleted_users and deleted_posts only grow.
C16_Monotone ==
    [][/\ users \subseteq users'
       /\ posts \subseteq posts'
       /\ deleted_users \subseteq deleted_users'
       /\ deleted_posts \subseteq deleted_posts']_vars

\* three records scanned, all four sets populated, and a post both flagged
\* and, since then, defined
C16_Witness ==
    /\ scan_no >= 3
    /\ users # {}
    /\ deleted_users # {}
    /\ posts \cap deleted_posts # {}

\* ---- the order of the tombstones ----
\* the model's actor identifiers in the order of their strs
DidOrd(did) == CHOOSE k \in 1..3 : <<DidA, DidB, DidC>>[k] = did

\* u < v as full identifiers of the same scheme and number of parts: decided
\* at the first part in which they differ
IdLess(u, v) ==
    /\ u # v
    /\ LET k == CHOOSE n \in 1..Len(u) :
                    u[n] # v[n] /\ \A l \in 1..(n - 1) : u[l] = v[l]
       IN  IF k = 3 THEN DidOrd(u[3]) < DidOrd(v[3]) ELSE StrLess(u[k], v[k])

\* C13: sorted_deletes is in ascending order of the decoded record-key
\* timestamp, and two identifiers of equal decoded timestamp are in the
\* lexical order of the full identifier.
C13_SortOrder ==
    pc \in {"merge", "done"} =>
        \A i, j \in 1..Len(sorted_deletes) :
            i < j =>
                \/ DeleteTs(sorted_deletes[i]) < DeleteTs(sorted_deletes[j])
                \/ /\ DeleteTs(sorted_deletes[i]) = DeleteTs(sorted_deletes[j])
                   /\ IdLess(sorted_deletes[i], sorted_deletes[j])

\* ---- the scan's input ----
\* C17: the scan, starting when the reorder phase has ended, is given the
\* records of the temp batches, each once, in the order of the batch numbers
\* and within a batch in the batch's order.
C17_ScanOrder ==
    [][pc = "scan" => (pc' = "scan" /\ stream' = Flatten(temp))]_vars

\* ---- records of equal ts ----
TieRecords ==
    {Rec(BLOCK, did, Uri(did, BLOCK, Rkey(t))) : did \in {DidA, DidB}, t \in 0..1}

InitTies ==
    /\ pc = "read"
    /\ lines \in SeqsUpTo(TieRecords, MaxTieLines)
    /\ line_no = 0
    /\ record_buffer = {}
    /\ counter = 0
    /\ total_records = 0
    /\ file_counter = 0
    /\ temp = <<>>
    /\ NoScan
    /\ NoMerge
    /\ NoSession
    /\ NoCodec

SpecTies == InitTies /\ [][Next]_vars

\* the records of rs with timestamp ts, in the order of rs
WithTsOf(rs, ts) == SelectSeq(rs, LAMBDA r : r.ts = ts)

IsPrefix(a, b) == Len(a) <= Len(b) /\ a = SubSeq(b, 1, Len(a))

BatchShape ==
    /\ file_counter = Len(temp)
    /\ \A k \in 1..Len(temp) : Len(temp[k]) \in 1..BATCH_SIZE
    /\ \A k \in 1..(Len(temp) - 1) : Len(temp[k]) = BATCH_SIZE
    /\ pc = "flush" => Cardinality(record_buffer) = 2 * BATCH_SIZE
    /\ pc = "read" => Cardinality(record_buffer) < 2 * BATCH_SIZE
    /\ (/\ BATCH_SIZE = 2
        /\ pc = "scan"
        /\ [i \in 1..Len(Resolved) |-> Resolved[i].ts] = <<1, 0, 2>>)
          => [k \in 1..Len(temp) |-> [i \in 1..Len(temp[k]) |-> temp[k][i].ts]]
                 = << <<0, 1>>, <<2>> >>

\* a batch is written, while reading, only by the flush, which writes the
\* BATCH_SIZE smallest and leaves BATCH_SIZE
FlushStep ==
    /\ (pc = "read" /\ pc' # "drain") => temp' = temp
    /\ pc = "flush" =>
          /\ Len(temp') = Len(temp) + 1
          /\ Len(temp'[Len(temp')]) = BATCH_SIZE
          /\ Cardinality(record_buffer') = BATCH_SIZE
          /\ \A r \in Range(temp'[Len(temp')]) : \A e \in record_buffer' : r.ts <= e[1]

\* a round of the drain writes BATCH_SIZE records, or all if fewer are left
DrainStep ==
    (pc = "drain" /\ pc' = "drain") =>
        /\ Len(temp') = Len(temp) + 1
        /\ Len(temp'[Len(temp')]) =
              IF Cardinality(record_buffer) < BATCH_SIZE
              THEN Cardinality(record_buffer) ELSE BATCH_SIZE
        /\ \A r \in Range(temp'[Len(temp')]) : \A e \in record_buffer' : r.ts <= e[1]

DelNoRkey == Uri(DidC, POST, EmptyStr)
DelBadChar == Uri(DidC, POST, <<"3", "!", "2">>)
DelShort == Uri(DidC, POST, <<"3", "2">>)

FilterRecords ==
    {OnPost(LIKE, DidA, Rkey(1), d) : d \in {Del2, DelNoRkey, DelBadChar, DelShort}}
        \cup {Rec(BLOCK, DidA, Uri(DidA, BLOCK, Rkey(3))),
              OnPost(LIKE, DidA, Rkey(3), DelShort)}

FilterStreams ==
    {rs \in Stamped(SeqsUpTo(FilterRecords, MaxFilterOriginals)) : NonDecreasing(rs)}

InitFilter ==
    /\ pc = "scan"
    /\ stream \in FilterStreams
    /\ temp = Chop(stream, BATCH_SIZE)
    /\ scan_no = 0
    /\ users = {}
    /\ posts = {}
    /\ deleted_users = {}
    /\ deleted_posts = {}
    /\ lines = [i \in 1..Len(stream) |-> Raw(stream[i])]
    /\ line_no = Len(stream)
    /\ record_buffer = {}
    /\ counter = Len(stream)
    /\ total_records = Len(stream)
    /\ file_counter = Len(temp)
    /\ NoMerge
    /\ NoSession
    /\ NoCodec

SpecFilter == InitFilter /\ [][NextMerge]_vars

\* C20: a dangling post whose record key does not decode (empty, of the wrong
\* length, or with a character outside the alphabet) does not abort the run,
\* is not in sorted_deletes, has no tombstone in the output, and stays in
\* deleted_posts.
C20_UnresolvableExcluded ==
    /\ pc # "crashed"
    /\ pc \in {"merge", "done"} =>
          \A uri \in deleted_posts :
              ~WellFormedRkey(rkey_from_uri(uri)) =>
                  /\ uri \notin Range(sorted_deletes)
                  /\ \A r \in Range(Final) \cup Range(new_batch) :
                        IsTombstone(r) => r.uri # uri

\* ---- the merge across the batches ----
\* the original records of an output batch, in its order
Originals(batch) == SelectSeq(batch, LAMBDA r : ~IsTombstone(r))

\* the positions in an output batch of the tombstones of uri
TombstonesIn(batch, uri) ==
    {p \in 1..Len(batch) : IsTombstone(batch[p]) /\ batch[p].uri = uri}

\* C21: delete_idx, delete_ts and last_ts are carried from one file to the
\* next: a tombstone whose timestamp is after the ts of the last record of
\* batch N and at or before the ts of the first record of batch N + 1 is in
\* output batch N + 1, before that first record, and in no other batch.
C21_CarryOver ==
    pc = "done" =>
        \A n \in 1..(Len(out) - 1) : \A uri \in Range(sorted_deletes) :
            (/\ Originals(out[n])[Len(Originals(out[n]))].ts < DeleteTs(uri)
             /\ DeleteTs(uri) <= Originals(out[n + 1])[1].ts)
                => /\ \E p \in TombstonesIn(out[n + 1], uri) :
                          \A k \in 1..p : IsTombstone(out[n + 1][k])
                   /\ \A b \in 1..Len(out) :
                          b # n + 1 => TombstonesIn(out[b], uri) = {}

C23_NoShadowing ==
    \A p, q \in 1..Len(Final) :
        ~(/\ ~IsTombstone(Final[p])
          /\ Final[p].type = POST
          /\ IsTombstone(Final[q])
          /\ Final[q].uri = Final[p].uri)

\* ---- main.py: the sessions of the users ----
SESSION_IDLE_THRESHOLD == 30 * 60
REFRESH_SIZE == 20
MAX_POSTS_PER_USER == 60
MAX_POSTS_PER_SESSION == REFRESH_SIZE * 5

\* createdAt is kept as the instant, here in seconds, its ISO text denotes
to_ts(created_at) == created_at

\* self.info[did] = {...}
log_user(info, did) ==
    (did :> [following |-> <<>>, posts |-> <<>>, curr_session_num |-> 0,
             last_interaction_ts |-> -1, feed |-> <<>>]) @@ info

\* f"{did}-{curr_session_num}"
get_session_id(info, did) == <<did, info[did].curr_session_num>>

\* last_interaction_ts is -1 from log_user on and is never None
is_new_session(info, did, ts) ==
    ts - info[did].last_interaction_ts > SESSION_IDLE_THRESHOLD

\* seq[-n:] and seq[:n]
LastN(seq, n) == SubSeq(seq, IF Len(seq) > n THEN Len(seq) - n + 1 ELSE 1, Len(seq))
FirstN(seq, n) == SubSeq(seq, 1, IF Len(seq) > n THEN n ELSE Len(seq))

\* sorted(feed, key=lambda x: x.split("/")[-1], reverse=True): stable, the
\* uris of equal key stay in their order
RECURSIVE SortedNewestFirst(_)
SortedNewestFirst(feed) ==
    IF feed = <<>> THEN <<>>
    ELSE LET done == SortedNewestFirst(SubSeq(feed, 1, Len(feed) - 1))
             x == feed[Len(feed)]
             k == Cardinality({p \in 1..Len(done) : ~StrLess(SortKey(done[p]), SortKey(x))})
         IN  SubSeq(done, 1, k) \o <<x>> \o SubSeq(done, k + 1, Len(done))

get_following_feed(info, did) ==
    LET own == LastN(info[did].posts, MAX_POSTS_PER_USER)
        following == info[did].following
        theirs == Flatten([k \in 1..Len(following) |->
                              LastN(info[following[k]].posts, MAX_POSTS_PER_USER)])
    IN  FirstN(SortedNewestFirst(own \o theirs), MAX_POSTS_PER_SESSION)

\* st is [info, sessions, posts, raised]: users.info, users.sessions, the keys
\* of posts.info, and whether a KeyError was raised
log_session(st, did, ts) ==
    LET num == st.info[did].curr_session_num + 1
        info1 == [st.info EXCEPT ![did].curr_session_num = num]
        info2 == [info1 EXCEPT ![did].feed = get_following_feed(info1, did)]
    IN  [st EXCEPT !.info = info2,
                   !.sessions = (<<did, num>> :> [did |-> did, start_ts |-> ts,
                                                  end_ts |-> ts, impressions |-> <<>>,
                                                  actions |-> <<>>]) @@ @]

HasSession(st, did) == get_session_id(st.info, did) \in DOMAIN st.sessions

\* self.sessions[self.get_session_id(did)]["actions"].append(record)
AppendAction(st, did, rec) ==
    IF ~HasSession(st, did)
    THEN [st EXCEPT !.raised = TRUE]
    ELSE [st EXCEPT !.sessions[get_session_id(st.info, did)].actions = Append(@, rec)]

\* Users.log_post, then Posts.log_post
log_post(st, did, uri, rec) ==
    LET s1 == AppendAction([st EXCEPT !.info[did].posts = Append(@, uri)], did, rec)
    IN  IF s1.raised THEN s1 ELSE [s1 EXCEPT !.posts = @ \cup {uri}]

log_follow(st, did, subject_did, rec) ==
    LET s1 == IF subject_did \notin DOMAIN st.info
              THEN [st EXCEPT !.info = log_user(st.info, subject_did)]
              ELSE st
    IN  IF subject_did \in Range(s1.info[did].following)
        THEN s1
        ELSE AppendAction([s1 EXCEPT !.info[did].following = Append(@, subject_did)],
                          did, rec)

\* vals.index(val), or -1 for the None of a val that is not in vals
get_idx(val, vals) ==
    IF val \in Range(vals)
    THEN (CHOOSE p \in 1..Len(vals) :
              vals[p] = val /\ \A q \in 1..(p - 1) : vals[q] # val) - 1
    ELSE -1

\* "if idx": neither None nor 0
log_like(st, did, subject_uri, rec) ==
    LET s1 == AppendAction(st, did, rec)
        user_feed == st.info[did].feed
        idx == get_idx(subject_uri, user_feed)
        s2 == IF idx > 0
              THEN [s1 EXCEPT !.sessions[get_session_id(st.info, did)].impressions =
                                  SubSeq(user_feed, 1, idx + 1)]
              ELSE s1
    IN  IF s1.raised THEN s1 ELSE AppendAction(s2, did, rec)

\* "reply" in record or "embed" in record
SkippedPost(rec) == rec.type = POST /\ (rec.reply \/ rec.quote # NoUri)

\* the last two statements of a loop round
TouchSession(st, did, ts) ==
    LET s1 == [st EXCEPT !.info[did].last_interaction_ts = ts]
    IN  IF ~HasSession(s1, did)
        THEN [s1 EXCEPT !.raised = TRUE]
        ELSE [s1 EXCEPT !.sessions[get_session_id(s1.info, did)].end_ts = ts]

\* one round of the loop over the firehose
LoopRound(st, rec, ts) ==
    LET did == rec.did
        s1 == IF did \notin DOMAIN st.info
              THEN [st EXCEPT !.info = log_user(st.info, did)]
              ELSE st
        s2 == IF is_new_session(s1.info, did, ts) THEN log_session(s1, did, ts) ELSE s1
        s3 == CASE rec.type = POST -> log_post(s2, did, rec.uri, rec)
                [] rec.type = LIKE -> log_like(s2, did, rec.subject_uri, rec)
                [] rec.type = FOLLOW -> log_follow(s2, did, rec.subject, rec)
                [] OTHER -> s2
    IN  IF SkippedPost(rec) THEN s2
        ELSE IF s3.raised THEN s3
        ELSE TouchSession(s3, did, ts)

\* 2022-11-17, the start_date of records(), in seconds
StartTs == 1668643200

\* the seconds from one record of the stream to the next
Gaps == {0, SESSION_IDLE_THRESHOLD, SESSION_IDLE_THRESHOLD + 1}

SessionRecords ==
    UNION {{Rec(POST, did, Uri(did, POST, Rkey(1))),
            Reply(did, Uri(did, POST, Rkey(2)), PostC, PostC),
            Quote(did, Uri(did, POST, Rkey(3)), PostC),
            OnPost(LIKE, did, Rkey(4), Uri(DidA, POST, Rkey(1))),
            Rec(BLOCK, did, Uri(did, BLOCK, Rkey(6)))} : did \in {DidA, DidB}}
        \cup {Follow(DidB, Rkey(5), DidA), Follow(DidA, Rkey(5), DidC)}

ProcessRecord ==
    /\ pc = "loop"
    /\ n_records < MaxRecords
    /\ \E gap \in Gaps : \E r \in SessionRecords :
          LET rec == [r EXCEPT !.createdAt = now_ts + gap]
              ts == to_ts(rec.createdAt)
              st == LoopRound([info |-> users_info, sessions |-> users_sessions,
                               posts |-> posts_info, raised |-> FALSE], rec, ts)
          IN  /\ loop_record' = rec
              /\ now_ts' = ts
              /\ users_info' = st.info
              /\ users_sessions' = st.sessions
              /\ posts_info' = st.posts
              /\ seen_ts' = (rec.did :> ts) @@ seen_ts
              /\ pc' = IF st.raised THEN "crashed" ELSE "loop"
    /\ n_records' = n_records + 1
    /\ UNCHANGED <<lines, line_no, stream, scan_no>>
    /\ UNCHANGED <<reorderVars, scanVars, mergeVars, codecVars>>

\* the stream is exhausted
StreamEnd ==
    /\ pc = "loop"
    /\ pc' = "done"
    /\ UNCHANGED <<lines, line_no, stream, scan_no>>
    /\ UNCHANGED <<reorderVars, scanVars, mergeVars, codecVars, sessionVars>>

InitSession ==
    /\ pc = "loop"
    /\ users_info = <<>>
    /\ users_sessions = <<>>
    /\ posts_info = {}
    /\ loop_record = <<>>
    /\ now_ts = StartTs
    /\ n_records = 0
    /\ seen_ts = <<>>
    /\ lines = <<>>
    /\ line_no = 0
    /\ record_buffer = {}
    /\ counter = 0
    /\ total_records = 0
    /\ file_counter = 0
    /\ temp = <<>>
    /\ NoScan
    /\ sorted_deletes = <<>>
    /\ delete_ts = -1
    /\ delete_idx = 0
    /\ last_ts = -1
    /\ file_no = 0
    /\ rec_no = 0
    /\ new_batch = <<>>
    /\ out = <<>>
    /\ NoCodec

NextSession == ProcessRecord \/ StreamEnd

SpecSession == InitSession /\ [][NextSession]_vars

\* after a loop round, the user of its record has last_interaction_ts and the
\* end_ts of the current session at the timestamp of the record
SessionTouched ==
    (n_records > 0 /\ pc # "crashed") =>
        LET did == loop_record.did
        IN  /\ users_info[did].last_interaction_ts = now_ts
            /\ get_session_id(users_info, did) \in DOMAIN users_sessions
            /\ users_sessions[get_session_id(users_info, did)].end_ts = now_ts

\* a round opens a session for the user of its record exactly when the
\* record is its first or comes more than SESSION_IDLE_THRESHOLD seconds
\* after the user's record before it
SessionOpenedWhenIdle ==
    n_records' = n_records + 1 =>
        LET did == loop_record'.did
            before == IF did \in DOMAIN users_info
                      THEN users_info[did].curr_session_num ELSE 0
        IN  (users_info'[did].curr_session_num # before)
                <=> \/ did \notin DOMAIN seen_ts
                    \/ now_ts' - seen_ts[did] > SESSION_IDLE_THRESHOLD

\* C24: after the loop has processed a record of user u, of any kind (a post
\* that is a reply or has an embed included), u's last_interaction_ts and the
\* end_ts of u's current session are the record's timestamp, and a session is
\* opened for u exactly when a record comes more than SESSION_IDLE_THRESHOLD
\* seconds after u's record immediately before it.
C24_SessionTracking == []SessionTouched /\ [][SessionOpenedWhenIdle]_vars

====
